---- MODULE Spec2Model ----
(***************************************************************************)
(* A model of the retrying HTTP transport (package transport) and of the   *)
(* reference strategies of package http.                                   *)
(*                                                                         *)
(* One RoundTrip call is modelled step by step: the variable pc is the     *)
(* position of the call in RetryableTransport.RoundTrip, and the two       *)
(* suspension points (the inner send and the select of the backoff wait)   *)
(* are states in which the environment (the caller's cancellation) can     *)
(* act.  The inner transport, the request body stream, the response bodies *)
(* and the backoff values are the environment: their outcomes are drawn    *)
(* from small sets.                                                        *)
(***************************************************************************)
EXTENDS Integers, Sequences, FiniteSets, TLC

VARIABLES
    maxAttempts,   \* RetryableTransport.maxAttempts (immutable after construction)
    policy,        \* RetryableTransport.checkRetry: which classifier was installed
    origReq,       \* the caller's request object
    req,           \* RoundTrip's local req after setupRewindBody
    tracking,      \* the readTrackingBody installed by setupRewindBody, and its stream
    rewoundReq,    \* the request prepared for the current attempt
    attempts,      \* RoundTrip's local attempts
    res,           \* the latest response (the nil response when there is none)
    err,           \* the latest error ("nil" when there is none)
    wait,          \* the latest backoff duration
    cancelled,     \* whether ctx.Done() is closed
    pc,            \* position of the call in RoundTrip
    result,        \* what RoundTrip returned
    innerCalls,    \* number of invocations of the inner transport's RoundTrip
    sent,          \* per inner invocation: the body bytes the request carried
    resps,         \* per inner invocation: the response body's state
    verdict,       \* RoundTrip's local shouldRetry: the classifier's latest answer
    checkCount,    \* number of invocations of the classifier
    checkArgs,     \* the (res, err) the classifier was last given
    backoffCalls,  \* per backoff invocation: its argument
    elapsed,       \* number of backoff waits that ended by the timer
    conc,          \* the concurrent calls on one transport (specification SpecConc)
    jit            \* one call of the reference backoff (specification SpecJitter)

vars == <<maxAttempts, policy, origReq, req, tracking, rewoundReq,
          attempts, res, err, wait, cancelled, pc, result, innerCalls, sent,
          resps, verdict, checkCount, checkArgs, backoffCalls, elapsed, conc, jit>>

----------------------------------------------------------------------------
(* Bounds of the model *)

\* largest maxAttempts a transport is constructed with
MaxN == 2

\* length of the caller's request body, in bytes
BodyLen == 2

\* largest backoff duration a backoff strategy returns
MaxWait == 1

\* largest base and cap, in milliseconds, the reference backoff is built with
MaxBase == 3

MaxCap == 6

\* largest attempt number the reference backoff is called with
MaxJitAttempts == 8

\* width of Go's int in the model of the reference backoff.  The program's
\* int has 64 bits; the model keeps its wrap-around at a width whose values
\* can be enumerated.
IntBits == 8

----------------------------------------------------------------------------
(* Values *)

\* http.StatusInternalServerError
StatusInternalServerError == 500

Statuses == {200, 404, StatusInternalServerError}

\* the bytes of the caller's request body
Content == [i \in 1..BodyLen |-> i]

\* a nil *http.Response
NilResponse == [isNil |-> TRUE, status |-> 0, hasBody |-> FALSE]

Responses == [isNil : {FALSE}, status : Statuses, hasBody : BOOLEAN]

\* the classifiers a transport is constructed with: the reference one of
\* package http, one that always retries and one that never does
Policies == {"default", "always", "never"}

\* the durations a backoff strategy returns: negative, zero and positive
Waits == (-1)..MaxWait

\* errors of the inner transport
InnerErrors == {"transportError"}

\* ctx.Err() once the context is done
CtxErr == "ctxErr"

\* the state of a response body nobody has touched
FreshBody(r) ==
    [isNil |-> r.isNil, hasBody |-> r.hasBody, reads |-> 0, eof |-> FALSE, closes |-> 0]

\* RoundTrip has not returned
NoResult == [returned |-> FALSE, res |-> NilResponse, id |-> 0, err |-> "nil"]

\* a request pointer that is nil
NilRequest == [isNil |-> TRUE, body |-> "none", bytes |-> <<>>]

----------------------------------------------------------------------------
(* The strategies *)

\* package http, shouldRetry: retry on any error, else on a status >= 500
shouldRetry(r, e) ==
    IF e # "nil" THEN TRUE
    ELSE IF r.status >= StatusInternalServerError THEN TRUE
    ELSE FALSE

\* t.checkRetry(res, err): the classifier the transport was constructed with
checkRetry(p, r, e) ==
    CASE p = "default" -> shouldRetry(r, e)
      [] p = "always"  -> TRUE
      [] p = "never"   -> FALSE

----------------------------------------------------------------------------
(* Request bodies *)

\* the bytes of the caller's stream that have not been read yet
Remaining(t) == SubSeq(Content, t.pos + 1, BodyLen)

\* the bytes a request carries
BodyBytes(r, t) == IF r.body = "none" THEN <<>> ELSE Remaining(t)

\* readTrackingBody.Read: sets didRead and forwards; n bytes are consumed
TrackedRead(t, n) == [t EXCEPT !.didRead = TRUE, !.pos = t.pos + n]

\* readTrackingBody.Close: sets didClose and forwards
TrackedClose(t) == [t EXCEPT !.didClose = TRUE]

\* setupRewindBody: a request without a body is returned as it is, otherwise
\* a shallow copy whose Body is a readTrackingBody over the caller's stream
setupRewindBody(r) ==
    IF r.body = "none" THEN r ELSE [r EXCEPT !.body = "tracking"]

\* the faults the environment can inject into one rewind
RewindFaults == {"none", "close", "getBody", "readAll"}

\* a rewind that never asks the body-factory and always buffers what is left
rewindBodyNoFactory(r, t, fault) ==
    IF r.body = "none" \/ (~t.didRead /\ ~t.didClose)
    THEN [req |-> [isNil |-> FALSE, body |-> r.body, bytes |-> BodyBytes(r, t)],
          err |-> "nil", tracking |-> t]
    ELSE LET t1 == IF ~t.didClose THEN TrackedClose(t) ELSE t
         IN  IF ~t.didClose /\ fault = "close"
             THEN [req |-> NilRequest, err |-> "closeErr", tracking |-> t1]
             ELSE IF fault = "readAll"
             THEN [req |-> NilRequest, err |-> "readAllErr",
                   tracking |-> TrackedRead(t1, 0)]
             ELSE [req |-> [isNil |-> FALSE, body |-> "fresh", bytes |-> Remaining(t1)],
                   err |-> "nil",
                   tracking |-> TrackedRead(t1, BodyLen - t1.pos)]

\* rewindBody(req): the request for the next attempt, the error, and the
\* tracking body afterwards.  fault names the operation that fails, if any.
rewindBody(r, t, fault) ==
    IF r.body = "none" \/ (~t.didRead /\ ~t.didClose)
    THEN [req |-> [isNil |-> FALSE, body |-> r.body, bytes |-> BodyBytes(r, t)],
          err |-> "nil", tracking |-> t]
    ELSE LET t1 == IF ~t.didClose THEN TrackedClose(t) ELSE t
         IN  IF ~t.didClose /\ fault = "close"
             THEN [req |-> NilRequest, err |-> "closeErr", tracking |-> t1]
             ELSE IF r.getBody
             THEN IF fault = "getBody"
                  THEN [req |-> NilRequest, err |-> "getBodyErr", tracking |-> t1]
                  ELSE [req |-> [isNil |-> FALSE, body |-> "fresh", bytes |-> Content],
                        err |-> "nil", tracking |-> t1]
             ELSE IF fault = "readAll"
                  THEN [req |-> NilRequest, err |-> "readAllErr",
                        tracking |-> TrackedRead(t1, 0)]
                  ELSE [req |-> [isNil |-> FALSE, body |-> "fresh",
                                 bytes |-> Remaining(t1)],
                        err |-> "nil",
                        tracking |-> TrackedRead(t1, BodyLen - t1.pos)]

\* what the inner transport does with the body of the request it is given:
\* whether it calls Read, how many bytes it consumes, whether it calls Close
BodyUses(rq, t) ==
    IF rq.body = "tracking"
    THEN {u \in [read : BOOLEAN, n : 0..(BodyLen - t.pos), close : BOOLEAN] :
             ~u.read => u.n = 0}
    ELSE {[read |-> FALSE, n |-> 0, close |-> FALSE]}

\* the tracking body after the inner transport used the request body
AfterUse(rq, t, u) ==
    IF rq.body # "tracking" THEN t
    ELSE LET t1 == IF u.read THEN TrackedRead(t, u.n) ELSE t
         IN  IF u.close THEN TrackedClose(t1) ELSE t1

----------------------------------------------------------------------------
(* Responses *)

\* what one invocation of the inner transport returns: a response and no
\* error, or no response and an error (the context's once it is done)
InnerOutcomes(c) ==
    [res : Responses, err : {"nil"}]
      \cup [res : {NilResponse}, err : InnerErrors \cup (IF c THEN {CtxErr} ELSE {})]

\* the faults the environment can inject into one drain
DrainFaults == {"none", "read", "close"}

\* a drain that reads the body to the end and leaves it open
drainBodyNoClose(r, b, fault) ==
    IF ~r.hasBody THEN [err |-> "nil", body |-> b]
    ELSE IF fault = "read"
         THEN [err |-> "drainReadErr", body |-> [b EXCEPT !.reads = b.reads + 1]]
    ELSE [err |-> "nil", body |-> [b EXCEPT !.reads = b.reads + 1, !.eof = TRUE]]

\* drainBody(res) on a non-nil response whose body is in state b: the error
\* it returns and the body afterwards
drainBody(r, b, fault) ==
    IF ~r.hasBody THEN [err |-> "nil", body |-> b]
    ELSE IF fault = "read"
         THEN [err |-> "drainReadErr", body |-> [b EXCEPT !.reads = b.reads + 1]]
    ELSE IF fault = "close"
         THEN [err |-> "drainCloseErr",
               body |-> [b EXCEPT !.reads = b.reads + 1, !.eof = TRUE,
                                  !.closes = b.closes + 1]]
    ELSE [err |-> "nil",
          body |-> [b EXCEPT !.reads = b.reads + 1, !.eof = TRUE,
                             !.closes = b.closes + 1]]

----------------------------------------------------------------------------
(* The retry loop *)

\* a budget check that lets one attempt too many through
BudgetExhaustedOffByOne(maxA, att) == maxA + 1 < att

\* "if t.maxAttempts < attempts": the attempt budget is used up
BudgetExhausted(maxA, att) == maxA < att

\* a loop that returns only when the budget is used up, whatever the verdict
ReturnsOutcomeIgnoringVerdict(v, maxA, att) == BudgetExhausted(maxA, att)

\* the two returns after the send: the classifier said no, or the budget is
\* used up
ReturnsOutcome(v, maxA, att) == ~v \/ BudgetExhausted(maxA, att)

\* a backoff that is given the number of attempts before this one
BackoffArgZeroBased(att) == att - 1

\* "wait := t.backoff(attempts)": the argument backoff is called with
BackoffArg(att) == att

\* a drain whose error is dropped
DrainFailedSwallowed(e) == FALSE

\* "if err != nil" after err = drainBody(res)
DrainFailed(e) == e # "nil"

\* a drain failure that hands the half-drained response back with the error
DrainFailureReturnsResponse(r, att) == [res |-> r, id |-> att]

\* "return nil, err" after a failed drain: the response that is returned and
\* the attempt it comes from
DrainFailureReturn(r, att) == [res |-> NilResponse, id |-> 0]

\* the cases of the select that are ready when it is entered: ctx.Done() is
\* closed, the timer of a duration <= 0 has fired
SelectReady(c, w) ==
    (IF c THEN {"done"} ELSE {}) \cup (IF w <= 0 THEN {"timer"} ELSE {})

\* RoundTrip returns (r, e); id is the attempt that produced r, 0 for nil
Return(r, id, e) ==
    /\ result' = [returned |-> TRUE, res |-> r, id |-> id, err |-> e]
    /\ pc' = "done"

\* no concurrent calls are modelled
ConcIdle == [transport |-> [maxAttempts |-> 0, policy |-> "never"], calls |-> <<>>]

\* no call of the reference backoff is modelled
JitIdle == [pc |-> "idle", base |-> 0, cap |-> 0, attempts |-> 0, wait |-> 0]

Init ==
    /\ maxAttempts \in 0..MaxN
    /\ policy \in Policies
    /\ origReq \in {[body |-> "none", getBody |-> FALSE],
                    [body |-> "stream", getBody |-> FALSE],
                    [body |-> "stream", getBody |-> TRUE]}
    /\ req = origReq
    /\ tracking = [didRead |-> FALSE, didClose |-> FALSE, pos |-> 0]
    /\ rewoundReq = NilRequest
    /\ attempts = 0
    /\ res = NilResponse
    /\ err = "nil"
    /\ wait = 0
    /\ cancelled = FALSE
    /\ pc = "start"
    /\ result = NoResult
    /\ innerCalls = 0
    /\ sent = <<>>
    /\ resps = <<>>
    /\ verdict = FALSE
    /\ checkCount = 0
    /\ checkArgs = [res |-> NilResponse, err |-> "nil"]
    /\ backoffCalls = <<>>
    /\ elapsed = 0
    /\ conc = ConcIdle
    /\ jit = JitIdle

\* a setup that installs the tracking body in the caller's request object
SetupInPlace ==
    /\ pc = "start"
    /\ origReq' = setupRewindBody(origReq)
    /\ req' = origReq'
    /\ pc' = "loop"
    /\ UNCHANGED <<maxAttempts, policy, tracking, rewoundReq, attempts,
                   res, err, wait, cancelled, result, innerCalls, sent, resps,
                   verdict, checkCount, checkArgs, backoffCalls>>
    /\ UNCHANGED <<elapsed, conc, jit>>

\* RoundTrip, up to the loop: req = setupRewindBody(req)
Setup ==
    /\ pc = "start"
    /\ req' = setupRewindBody(req)
    /\ pc' = "loop"
    /\ UNCHANGED <<maxAttempts, policy, origReq, tracking, rewoundReq, attempts,
                   res, err, wait, cancelled, result, innerCalls, sent, resps,
                   verdict, checkCount, checkArgs, backoffCalls>>
    /\ UNCHANGED <<elapsed, conc, jit>>

\* the head of the loop: attempts++ and rewoundReq, err := rewindBody(req)
Rewind ==
    /\ pc = "loop"
    /\ attempts' = attempts + 1
    /\ \E fault \in RewindFaults :
         LET rw == rewindBody(req, tracking, fault)
         IN  /\ rewoundReq' = rw.req
             /\ err' = rw.err
             /\ tracking' = rw.tracking
    /\ res' = NilResponse
    /\ pc' = "send"
    /\ UNCHANGED <<maxAttempts, policy, origReq, req, wait, cancelled, result,
                   innerCalls, sent, resps, verdict, checkCount, checkArgs,
                   backoffCalls>>
    /\ UNCHANGED <<elapsed, conc, jit>>

\* res, err := t.transport().RoundTrip(rewoundReq).  The error of rewindBody
\* is overwritten unread; an inner transport given a nil request dereferences
\* it and panics.
Send ==
    /\ pc = "send"
    /\ innerCalls' = innerCalls + 1
    /\ IF rewoundReq.isNil
       THEN /\ pc' = "panic"
            /\ sent' = Append(sent, <<>>)
            /\ resps' = Append(resps, FreshBody(NilResponse))
            /\ UNCHANGED <<res, err, tracking>>
       ELSE /\ \E out \in InnerOutcomes(cancelled) :
                 /\ res' = out.res
                 /\ err' = out.err
                 /\ resps' = Append(resps, FreshBody(out.res))
            /\ \E u \in BodyUses(rewoundReq, tracking) :
                 tracking' = AfterUse(rewoundReq, tracking, u)
            /\ sent' = Append(sent, rewoundReq.bytes)
            /\ pc' = "classify"
    /\ UNCHANGED <<maxAttempts, policy, origReq, req, rewoundReq, attempts, wait,
                   cancelled, result, verdict, checkCount, checkArgs, backoffCalls>>
    /\ UNCHANGED <<elapsed, conc, jit>>

\* from shouldRetry := t.checkRetry(res, err) to wait := t.backoff(attempts)
Classify ==
    /\ pc = "classify"
    /\ verdict' = checkRetry(policy, res, err)
    /\ checkCount' = checkCount + 1
    /\ checkArgs' = [res |-> res, err |-> err]
    /\ IF ReturnsOutcome(verdict', maxAttempts, attempts)
       THEN /\ Return(res, IF res.isNil THEN 0 ELSE attempts, err)
            /\ UNCHANGED <<wait, backoffCalls>>
       ELSE /\ \E w \in Waits : wait' = w
            /\ backoffCalls' = Append(backoffCalls, BackoffArg(attempts))
            /\ pc' = "select"
            /\ UNCHANGED result
    /\ UNCHANGED <<maxAttempts, policy, origReq, req, tracking, rewoundReq,
                   attempts, res, err, cancelled, innerCalls, sent, resps>>
    /\ UNCHANGED <<elapsed, conc, jit>>

\* a select with a default clause: with no case ready the call goes on at once
SelectNeverBlocks ==
    /\ pc = "select"
    /\ IF SelectReady(cancelled, wait) = {}
       THEN pc' = "drain" /\ UNCHANGED <<result, elapsed>>
       ELSE \E c \in SelectReady(cancelled, wait) :
              IF c = "done"
              THEN Return(NilResponse, 0, CtxErr) /\ UNCHANGED elapsed
              ELSE pc' = "drain" /\ elapsed' = elapsed + 1 /\ UNCHANGED result
    /\ UNCHANGED <<maxAttempts, policy, origReq, req, tracking, rewoundReq,
                   attempts, res, err, wait, cancelled, innerCalls, sent, resps,
                   verdict, checkCount, checkArgs, backoffCalls>>
    /\ UNCHANGED <<conc, jit>>

\* entering the select: a ready case is taken, any one of them when both are
\* ready; with none ready the call blocks
Select ==
    /\ pc = "select"
    /\ IF SelectReady(cancelled, wait) = {}
       THEN pc' = "blocked" /\ UNCHANGED <<result, elapsed>>
       ELSE \E c \in SelectReady(cancelled, wait) :
              IF c = "done"
              THEN Return(NilResponse, 0, CtxErr) /\ UNCHANGED elapsed
              ELSE pc' = "drain" /\ elapsed' = elapsed + 1 /\ UNCHANGED result
    /\ UNCHANGED <<maxAttempts, policy, origReq, req, tracking, rewoundReq,
                   attempts, res, err, wait, cancelled, innerCalls, sent, resps,
                   verdict, checkCount, checkArgs, backoffCalls>>
    /\ UNCHANGED <<conc, jit>>

\* case <-time.After(wait): the timer fires while the call is blocked
TimerFires ==
    /\ pc = "blocked"
    /\ pc' = "drain"
    /\ UNCHANGED <<maxAttempts, policy, origReq, req, tracking, rewoundReq,
                   attempts, res, err, wait, cancelled, result, innerCalls, sent,
                   resps, verdict, checkCount, checkArgs, backoffCalls>>
    /\ elapsed' = elapsed + 1
    /\ UNCHANGED <<conc, jit>>

\* a wait that sleeps the whole backoff: cancellation does not wake it
CancelNotObserved ==
    /\ ~cancelled
    /\ pc \notin {"done", "panic"}
    /\ cancelled' = TRUE
    /\ UNCHANGED <<maxAttempts, policy, origReq, req, tracking, rewoundReq,
                   attempts, res, err, wait, pc, result, innerCalls, sent, resps,
                   verdict, checkCount, checkArgs, backoffCalls>>
    /\ UNCHANGED <<elapsed, conc, jit>>

\* the caller cancels the request's context (or its deadline passes); a call
\* blocked in the select is woken by it: case <-ctx.Done()
Cancel ==
    /\ ~cancelled
    /\ pc \notin {"done", "panic"}
    /\ cancelled' = TRUE
    /\ IF pc = "blocked"
       THEN Return(NilResponse, 0, CtxErr)
       ELSE UNCHANGED <<pc, result>>
    /\ UNCHANGED <<maxAttempts, policy, origReq, req, tracking, rewoundReq,
                   attempts, res, err, wait, innerCalls, sent, resps, verdict,
                   checkCount, checkArgs, backoffCalls>>
    /\ UNCHANGED <<elapsed, conc, jit>>

\* err = drainBody(res) and its check.  drainBody reads res.Body of a nil res:
\* a nil pointer dereference, the call panics.
Drain ==
    /\ pc = "drain"
    /\ IF res.isNil
       THEN /\ pc' = "panic"
            /\ UNCHANGED <<err, resps, result>>
       ELSE \E fault \in DrainFaults :
              LET d == drainBody(res, resps[attempts], fault)
              IN  /\ resps' = [resps EXCEPT ![attempts] = d.body]
                  /\ err' = d.err
                  /\ IF DrainFailed(d.err)
                     THEN LET rt == DrainFailureReturn(res, attempts)
                          IN  Return(rt.res, rt.id, d.err)
                     ELSE pc' = "loop" /\ UNCHANGED result
    /\ UNCHANGED <<maxAttempts, policy, origReq, req, tracking, rewoundReq,
                   attempts, res, wait, cancelled, innerCalls, sent, verdict,
                   checkCount, checkArgs, backoffCalls>>
    /\ UNCHANGED <<elapsed, conc, jit>>

Next ==
    \/ Setup
    \/ Rewind
    \/ Send
    \/ Classify
    \/ Select
    \/ TimerFires
    \/ Cancel
    \/ Drain

Spec == Init /\ [][Next]_vars

----------------------------------------------------------------------------
(* The reference backoff of package http, one call of it *)

\* the variables of the RoundTrip call
callVars == <<maxAttempts, policy, origReq, req, tracking, rewoundReq,
              attempts, res, err, wait, cancelled, pc, result, innerCalls, sent,
              resps, verdict, checkCount, checkArgs, backoffCalls, elapsed>>

\* no RoundTrip call is modelled
CallIdle ==
    /\ maxAttempts = 0
    /\ policy = "never"
    /\ origReq = [body |-> "none", getBody |-> FALSE]
    /\ req = origReq
    /\ tracking = [didRead |-> FALSE, didClose |-> FALSE, pos |-> 0]
    /\ rewoundReq = NilRequest
    /\ attempts = 0
    /\ res = NilResponse
    /\ err = "nil"
    /\ wait = 0
    /\ cancelled = FALSE
    /\ pc = "idle"
    /\ result = NoResult
    /\ innerCalls = 0
    /\ sent = <<>>
    /\ resps = <<>>
    /\ verdict = FALSE
    /\ checkCount = 0
    /\ checkArgs = [res |-> NilResponse, err |-> "nil"]
    /\ backoffCalls = <<>>
    /\ elapsed = 0

\* the range of int
MaxInt == 2^(IntBits - 1) - 1

MinInt == -(2^(IntBits - 1))

\* int arithmetic wraps around
WrapInt(x) == ((x - MinInt) % 2^IntBits) + MinInt

\* int(math.Pow(2, float64(attempts))): exact while 2^attempts is an int; the
\* conversion of a float that is out of int's range is implementation
\* dependent: the smallest int on amd64, the largest on arm64
IntOfPow2(a) == IF 2^a <= MaxInt THEN {2^a} ELSE {MinInt, MaxInt}

\* tempWaitMills after the cap: baseMills * int(math.Pow(2, attempts)),
\* replaced by capMills when it is larger
TempWaitMills(base, cap, a) ==
    {IF WrapInt(base * p) > cap THEN cap ELSE WrapInt(base * p) : p \in IntOfPow2(a)}

\* rand.Intn(n): panics for n <= 0, otherwise any of 0..n-1
RandIntn(n) == IF n <= 0 THEN {} ELSE 0..(n - 1)

InitJitter ==
    /\ CallIdle
    /\ conc = ConcIdle
    /\ jit \in [pc : {"call"}, base : 1..MaxBase, cap : 1..MaxCap,
                attempts : 1..MaxJitAttempts, wait : {0}]

\* exponentialBackoffAndFullJitter(base, cap)(attempts), in milliseconds
JitterBackoff ==
    /\ jit.pc = "call"
    /\ \E t \in TempWaitMills(jit.base, jit.cap, jit.attempts) :
         IF RandIntn(t) = {}
         THEN jit' = [jit EXCEPT !.pc = "panic"]
         ELSE \E w \in RandIntn(t) : jit' = [jit EXCEPT !.pc = "returned", !.wait = w]
    /\ UNCHANGED callVars
    /\ UNCHANGED conc

NextJitter == JitterBackoff

SpecJitter == InitJitter /\ [][NextJitter]_vars

----------------------------------------------------------------------------
(* Concurrent RoundTrip calls on one transport.  Every call has its own
   request (without a body) and its own context, which is not cancelled; the
   calls share the transport's fields.  A call keeps its locals in its own
   record, and log is the list of outcomes its inner sends and drains had. *)

\* the concurrent calls
Calls == {"a", "b"}

\* what the inner transport returns to a concurrent call, whose context is
\* not cancelled: a response with a body, or an error
ConcOutcomes == {o \in InnerOutcomes(FALSE) : o.res.isNil \/ o.res.hasBody}

\* a call that has not started its loop
NewCall ==
    [pc |-> "loop", attempts |-> 0, res |-> NilResponse, err |-> "nil",
     log |-> <<>>, kind |-> "running", retRes |-> NilResponse, retErr |-> "nil"]

\* an attempt counter kept in one place for all calls
ConcAttemptsShared(cn, c) ==
    [cn EXCEPT !.calls = [d \in Calls |-> [cn.calls[d] EXCEPT !.attempts = @ + 1]]]

\* "attempts++" of call c: attempts is a local of RoundTrip
ConcAttemptsAfter(cn, c) == [cn EXCEPT !.calls[c].attempts = @ + 1]

\* call c returns (r, e)
ConcReturn(cn, c, r, e) ==
    [cn EXCEPT !.calls[c].pc = "done", !.calls[c].kind = "returned",
               !.calls[c].retRes = r, !.calls[c].retErr = e]

InitConc ==
    /\ CallIdle
    /\ jit = JitIdle
    /\ conc \in [transport : [maxAttempts : 0..MaxN, policy : Policies],
                 calls : {[c \in Calls |-> NewCall]}]

\* call c: attempts++, the rewind of a request without a body, and the send
ConcSend(c) ==
    /\ conc.calls[c].pc = "loop"
    /\ \E out \in ConcOutcomes :
         conc' = [ConcAttemptsAfter(conc, c) EXCEPT
                    !.calls[c].res = out.res,
                    !.calls[c].err = out.err,
                    !.calls[c].log = Append(@, [res |-> out.res, err |-> out.err,
                                                drainErr |-> "nil"]),
                    !.calls[c].pc = "classify"]
    /\ UNCHANGED callVars
    /\ UNCHANGED jit

\* call c: the classifier, the budget check and backoff, with the fields of
\* the shared transport
ConcClassify(c) ==
    /\ conc.calls[c].pc = "classify"
    /\ LET me == conc.calls[c]
           v == checkRetry(conc.transport.policy, me.res, me.err)
       IN  conc' = IF ReturnsOutcome(v, conc.transport.maxAttempts, me.attempts)
                   THEN ConcReturn(conc, c, me.res, me.err)
                   ELSE [conc EXCEPT !.calls[c].pc = "select"]
    /\ UNCHANGED callVars
    /\ UNCHANGED jit

\* call c: the timer case of its select
ConcWait(c) ==
    /\ conc.calls[c].pc = "select"
    /\ conc' = [conc EXCEPT !.calls[c].pc = "drain"]
    /\ UNCHANGED callVars
    /\ UNCHANGED jit

\* call c: err = drainBody(res) and its check
ConcDrain(c) ==
    /\ conc.calls[c].pc = "drain"
    /\ LET me == conc.calls[c]
       IN  IF me.res.isNil
           THEN conc' = [conc EXCEPT !.calls[c].pc = "panic", !.calls[c].kind = "panic"]
           ELSE \E fault \in DrainFaults :
                  LET d == drainBody(me.res, FreshBody(me.res), fault)
                      logged == [conc EXCEPT
                                   !.calls[c].log[Len(me.log)].drainErr = d.err,
                                   !.calls[c].err = d.err]
                  IN  conc' = IF DrainFailed(d.err)
                              THEN ConcReturn(logged, c, NilResponse, d.err)
                              ELSE [logged EXCEPT !.calls[c].pc = "loop"]
    /\ UNCHANGED callVars
    /\ UNCHANGED jit

NextConc ==
    \E c \in Calls :
        \/ ConcSend(c)
        \/ ConcClassify(c)
        \/ ConcWait(c)
        \/ ConcDrain(c)

SpecConc == InitConc /\ [][NextConc]_vars

----------------------------------------------------------------------------
(* The claims *)

\* the errors drainBody returns
DrainErrors == {"drainReadErr", "drainCloseErr"}

\* the errors rewindBody returns
RewindErrors == {"closeErr", "getBodyErr", "readAllErr"}

\* what RoundTrip returns when it returns (r, e), r the response of attempt id
Returned(r, id, e) == [returned |-> TRUE, res |-> r, id |-> id, err |-> e]

\* once the call has returned, no strategy and no transport is invoked again
\* and no response body is touched
QuietAfterReturn ==
    pc = "done" => UNCHANGED <<innerCalls, checkCount, backoffCalls, resps>>

\* C1: in one RoundTrip call on a transport with maxAttempts N >= 0, the
\* inner transport is invoked at most N + 1 times, whatever the inner
\* outcomes, the classifier's verdicts and the backoff values are.
C1_AtMostNPlusOneSends == innerCalls <= maxAttempts + 1

\* C1 witness: a call that used its whole budget of N + 1 sends, N >= 2
C1_Witness == pc = "done" /\ maxAttempts >= 2 /\ innerCalls = maxAttempts + 1

\* C2: when the attempt gave no response (a transport error) and the wait
\* has elapsed, the call performs no drain and goes on to the next attempt.
C2_NilResponseSkipsDrain ==
    [][(pc = "drain" /\ res.isNil /\ pc' # "drain")
          => (pc' = "loop" /\ UNCHANGED resps)]_vars

\* C3: when the classifier answers "do not retry", the call returns exactly
\* the (response, error) it was given, whatever budget remains, and neither
\* backoff, nor a drain, nor another send follows.
C3_NoRetryReturnsOutcome ==
    /\ [][(checkCount' = checkCount + 1 /\ ~verdict')
             => /\ pc' = "done"
                /\ result' = Returned(res, IF res.isNil THEN 0 ELSE attempts, err)
                /\ checkArgs' = [res |-> res, err |-> err]
                /\ UNCHANGED <<innerCalls, backoffCalls, resps>>]_vars
    /\ [][QuietAfterReturn]_vars

\* C3 witness: a 404 from the first send under the reference classifier with
\* budget left: one send, the 404 returned, backoff never invoked
C3_Witness ==
    /\ pc = "done" /\ policy = "default" /\ maxAttempts >= 2
    /\ innerCalls = 1 /\ backoffCalls = <<>>
    /\ result = Returned([isNil |-> FALSE, status |-> 404, hasBody |-> TRUE], 1, "nil")

\* C4: when the classifier says retry on every attempt and there is neither
\* a cancellation nor a drain failure, the call ends by returning the outcome
\* of send N + 1 as it is: N + 1 sends, the last response not drained,
\* backoff invoked for k = 1..N only.
C4_AlwaysRetryReturnsLastOutcome ==
    (policy = "always" /\ ~cancelled /\ pc \in {"done", "panic"}
        /\ ~(result.returned /\ result.err \in DrainErrors))
      => /\ pc = "done"
         /\ innerCalls = maxAttempts + 1
         /\ result = Returned(res, IF res.isNil THEN 0 ELSE attempts, err)
         /\ resps[innerCalls].reads = 0 /\ resps[innerCalls].closes = 0
         /\ backoffCalls = [k \in 1..maxAttempts |-> k]

\* C5: when the context is cancelled while the call is blocked in a backoff
\* wait that has not elapsed, the call returns (nil, ctx.Err()) and the inner
\* transport is not invoked again.
C5_CancelDuringWait ==
    /\ [][(pc = "blocked" /\ ~cancelled /\ cancelled')
             => /\ pc' = "done"
                /\ result' = Returned(NilResponse, 0, CtxErr)
                /\ UNCHANGED innerCalls]_vars
    /\ [][QuietAfterReturn]_vars

\* C5 witness: always-retry, N >= 2, a positive backoff, cancelled in the
\* first wait: exactly one send, the cancellation error returned
C5_Witness ==
    /\ pc = "done" /\ policy = "always" /\ maxAttempts >= 2 /\ wait > 0
    /\ innerCalls = 1 /\ backoffCalls = <<1>>
    /\ result = Returned(NilResponse, 0, CtxErr)

\* C6: when backoff returned zero or less and the context is already done
\* when the select is reached, the call returns the cancellation error and
\* does not go on to another attempt.
C6_CancelWinsOverReadyTimer ==
    [][(pc = "select" /\ cancelled /\ wait <= 0)
          => (pc' = "done" /\ result' = Returned(NilResponse, 0, CtxErr))]_vars

\* C7: a response returned to the caller has a body the transport has neither
\* read nor closed.
C7_ReturnedBodyUntouched ==
    (result.returned /\ ~result.res.isNil)
      => /\ result.id \in 1..Len(resps)
         /\ resps[result.id].reads = 0
         /\ ~resps[result.id].eof
         /\ resps[result.id].closes = 0

\* C7 witness: a retried call that returns a response while an earlier
\* response was drained
C7_Witness ==
    /\ result.returned /\ ~result.res.isNil /\ result.res.hasBody
    /\ result.id >= 2 /\ resps[1].closes = 1

\* C8: the body of every response that was followed by another send has been
\* read to the end and closed exactly once by the time of that send.
C8_DiscardedBodyDrainedOnce ==
    \A i \in 1..Len(resps) :
        (i < innerCalls /\ resps[i].hasBody)
          => (resps[i].eof /\ resps[i].reads = 1 /\ resps[i].closes = 1)

\* C8 witness: three sends, the first two responses with bodies
C8_Witness ==
    /\ innerCalls = 3 /\ resps[1].hasBody /\ resps[2].hasBody
    /\ resps[1].closes = 1 /\ resps[2].closes = 1 /\ ~res.isNil

\* C9: when the drain of a discarded response fails, in the read or in the
\* close, the call returns (nil, that error); no send, no backoff and no
\* classifier call follows.
C9_DrainFailureIsFatal ==
    /\ [][(pc = "drain" /\ err' \in DrainErrors)
             => /\ pc' = "done"
                /\ result' = Returned(NilResponse, 0, err')
                /\ UNCHANGED <<innerCalls, checkCount, backoffCalls>>]_vars
    /\ [][QuietAfterReturn]_vars

\* C9 witness: a call ended by a failed close of a discarded body, budget left
C9_Witness ==
    /\ pc = "done" /\ result = Returned(NilResponse, 0, "drainCloseErr")
    /\ innerCalls = 1 /\ maxAttempts >= 2 /\ resps[1].closes = 1

\* C10: when rewindBody fails, the call returns (nil, that error) and the
\* inner transport is not invoked for that attempt.
C10_RewindFailureIsFatal ==
    [][(attempts' = attempts + 1 /\ err' \in RewindErrors)
          => (pc' = "done" /\ result' = Returned(NilResponse, 0, err'))]_vars

\* the i-th invocation of the inner transport was given a request, not nil
GivenRequest(i) == ~(i = innerCalls /\ pc = "panic" /\ rewoundReq.isNil)

C12_CallerRequestNotWritten ==
    /\ [][origReq' = origReq]_vars
    /\ [](origReq.body # "tracking")

\* C12 witness: a returned call that sent a request with the tracking body
\* and rewound it, while the caller's request still has its own stream
C12_Witness ==
    /\ pc = "done" /\ innerCalls >= 2 /\ tracking.didClose
    /\ req.body = "tracking" /\ origReq.body = "stream"

\* C15: a send after the first begins only when the send before it has
\* returned and been classified, the backoff wait after it has ended by its
\* timer, and the body of its response (if it has one) has been read to the
\* end and closed.
C15_AttemptsSequential ==
    [][(innerCalls' = innerCalls + 1 /\ innerCalls >= 1)
          => /\ pc = "send"
             /\ checkCount = innerCalls
             /\ Len(backoffCalls) = innerCalls
             /\ elapsed = innerCalls
             /\ resps[innerCalls].hasBody
                  => (resps[innerCalls].eof /\ resps[innerCalls].closes = 1)]_vars

\* C15 witness: a third send after two positive waits and two drained bodies
C15_Witness ==
    /\ innerCalls = 3 /\ elapsed = 2 /\ wait > 0 /\ ~cancelled
    /\ resps[1].closes = 1 /\ resps[2].closes = 1

\* the number of invocations of the inner transport that have returned
Completed == IF GivenRequest(innerCalls) THEN innerCalls ELSE innerCalls - 1

\* C16: the classifier is invoked once after each send that returned, with
\* that send's (response, error); backoff is invoked at most once after each
\* send, only after a retry verdict with budget left, and its k-th
\* invocation is given k, the index of the send that just completed.
C16_StrategiesFollowSends ==
    /\ [](/\ checkCount = Completed - (IF pc = "classify" THEN 1 ELSE 0)
          /\ backoffCalls = [k \in 1..Len(backoffCalls) |-> k]
          /\ Len(backoffCalls) <= checkCount
          /\ Len(backoffCalls) <= maxAttempts)
    /\ [][checkCount' = checkCount + 1
             => /\ pc = "classify"
                /\ checkArgs' = [res |-> res, err |-> err]
                /\ checkArgs'.res.isNil = resps[innerCalls].isNil
                /\ checkArgs'.res.hasBody = resps[innerCalls].hasBody]_vars
    /\ [][backoffCalls' # backoffCalls
             => /\ checkCount' = checkCount + 1
                /\ verdict'
                /\ innerCalls <= maxAttempts
                /\ backoffCalls' = Append(backoffCalls, innerCalls)]_vars

\* C16 witness: three sends, three classifier calls, backoff called with 1, 2
C16_Witness ==
    /\ pc = "done" /\ innerCalls = 3 /\ checkCount = 3 /\ backoffCalls = <<1, 2>>
    /\ ~result.res.isNil

\* C17: once the inner transport has returned the context's error and the
\* classifier retries on errors, the call ends by returning (nil, ctx.Err()),
\* as the last outcome or from the wait, and no other send is started.
C17_CancelledSendEndsInCancellation ==
    (policy \in {"default", "always"} /\ checkCount = innerCalls
        /\ checkArgs.err = CtxErr /\ pc \in {"done", "panic"})
      => (pc = "done" /\ result = Returned(NilResponse, 0, CtxErr))

\* C18: the call ends only by returning: in every state it has returned or
\* can take a step, and it never starts more than N + 1 attempts.
C18_CallReturns ==
    /\ pc = "done" \/ ENABLED Next
    /\ attempts <= maxAttempts + 1

\* C19: without a body-factory, once an attempt carried a buffered replay of
\* the body, the next attempt carries the same bytes.
C19_BufferReplayedToLaterAttempts ==
    [][(attempts' = attempts + 1 /\ ~req.getBody /\ rewoundReq.body = "fresh"
           /\ ~rewoundReq'.isNil)
          => rewoundReq'.bytes = rewoundReq.bytes]_vars

\* C20: when the call has returned, every response body the inner transport
\* produced is either the returned response's, untouched, or has been closed
\* once by the transport.
C20_EveryResponseHasOneOwner ==
    pc = "done"
      => \A i \in 1..Len(resps) :
            resps[i].hasBody
              => IF result.id = i THEN resps[i].closes = 0 ELSE resps[i].closes = 1

\* the smaller of two numbers
Min(a, b) == IF a < b THEN a ELSE b

\* C14: for every attempt number a >= 1 and every base and cap, the
\* reference backoff returns a duration w with 0 <= w < min(base * 2^a, cap)
\* milliseconds: it never returns a negative duration and never fails.
C14_JitterWithinCeiling ==
    jit.pc \in {"returned", "panic"}
      => /\ jit.pc = "returned"
         /\ 0 <= jit.wait
         /\ jit.wait < Min(jit.base * 2^jit.attempts, jit.cap)

\* what a call running alone on transport tp ends with when its sends and
\* drains have the outcomes of log, from attempt k on
RECURSIVE AloneFrom(_, _, _)
AloneFrom(tp, log, k) ==
    LET e == log[k]
    IN  IF ~checkRetry(tp.policy, e.res, e.err) \/ k > tp.maxAttempts
        THEN [attempts |-> k, kind |-> "returned", res |-> e.res, err |-> e.err]
        ELSE IF e.res.isNil
        THEN [attempts |-> k, kind |-> "panic", res |-> NilResponse, err |-> "nil"]
        ELSE IF e.drainErr # "nil"
        THEN [attempts |-> k, kind |-> "returned", res |-> NilResponse,
              err |-> e.drainErr]
        ELSE AloneFrom(tp, log, k + 1)

\* how call c ended
EndOf(c) ==
    [attempts |-> conc.calls[c].attempts, kind |-> conc.calls[c].kind,
     res |-> conc.calls[c].retRes, err |-> conc.calls[c].retErr]

\* C13: with concurrent calls on one transport, the transport's fields are
\* never written, a step of one call leaves the other calls as they are, and
\* a call that has ended made the attempts and has the outcome it would have
\* alone against the outcomes its own sends and drains had.
C13_ConcurrentCallsIndependent ==
    /\ [][conc'.transport = conc.transport]_vars
    /\ [][\A c, d \in Calls :
             (c # d /\ conc'.calls[c] # conc.calls[c])
                => conc'.calls[d] = conc.calls[d]]_vars
    /\ [](\A c \in DOMAIN conc.calls :
             /\ Len(conc.calls[c].log) = conc.calls[c].attempts
             /\ conc.calls[c].kind # "running"
                  => EndOf(c) = AloneFrom(conc.transport, conc.calls[c].log, 1))

\* C13 witness: both calls have ended, one after three sends with a
\* response, the other after one send, on a transport with budget for three
C13_Witness ==
    /\ DOMAIN conc.calls = Calls
    /\ conc.transport.maxAttempts >= 2
    /\ \A c \in Calls : conc.calls[c].kind = "returned"
    /\ \E c, d \in Calls :
         /\ conc.calls[c].attempts = 3 /\ ~conc.calls[c].retRes.isNil
         /\ conc.calls[d].attempts = 1

====
